---- MODULE Spec2Model ----
(***************************************************************************)
(* PokerAwardsParser (src/unnamed/part_001): a hand-history transcript is  *)
(* cut into hand records, every hand is folded into a per-player stat map, *)
(* the final positions are resolved from the last hand, awards are issued  *)
(* from the stat map and a summary record is returned.                     *)
(*                                                                         *)
(* A transcript is represented by what the parser's regular expressions    *)
(* match in it: a hand record holds the ordered matches of the seat, the   *)
(* action, the "shows" and the "collected" patterns, and whether the       *)
(* showdown marker and split-pot language occur in it.  A hand description *)
(* is the sequence of its words; String.includes(phrase) is containment of *)
(* the phrase's words as a contiguous run, after lower-casing.             *)
(***************************************************************************)
EXTENDS Integers, Sequences, FiniteSets, TLC

\* ------------------------------------------------------------------ bounds
\* longest transcript (number of hand records) drawn as an input
MaxHands == 2
\* last clock instant; a calendar day lasts TicksPerDay instants
MaxClock == 2

\* ------------------------------------------------------------ descriptions
\* String.toLowerCase on one word of the vocabulary used in the inputs
LowerWord(w) ==
  CASE w = "Ace" -> "ace"
    [] w = "Aces" -> "aces"
    [] w = "Kings" -> "kings"
    [] w = "Queens" -> "queens"
    [] w = "Jacks" -> "jacks"
    [] w = "Tens" -> "tens"
    [] w = "Sevens" -> "sevens"
    [] w = "Fives" -> "fives"
    [] w = "Royal" -> "royal"
    [] w = "Flush" -> "flush"
    [] OTHER -> w

ToLowerCase(d) == [i \in 1..Len(d) |-> LowerWord(d[i])]

\* d.includes(phrase), both word sequences
Includes(d, phrase) ==
  \E i \in 1..(Len(d) - Len(phrase) + 1) :
    SubSeq(d, i, i + Len(phrase) - 1) = phrase

\* two pair of any rank gets the strength of generic two pair
evaluateMadeHandStrength_FlatTwoPair(handDescription) ==
  LET handDesc == ToLowerCase(handDescription) IN
  IF Includes(handDesc, <<"royal", "flush">>) THEN 1000
  ELSE IF Includes(handDesc, <<"straight", "flush">>) THEN 900
  ELSE IF Includes(handDesc, <<"four", "of", "a", "kind">>) THEN 800
  ELSE IF Includes(handDesc, <<"full", "house">>) THEN 700
  ELSE IF Includes(handDesc, <<"flush">>) /\ ~Includes(handDesc, <<"straight">>) THEN 600
  ELSE IF Includes(handDesc, <<"straight">>) /\ ~Includes(handDesc, <<"flush">>) THEN 500
  ELSE IF Includes(handDesc, <<"three", "of", "a", "kind">>) THEN 400
  ELSE IF Includes(handDesc, <<"two", "pair">>) THEN 200
  ELSE IF Includes(handDesc, <<"pair", "of">>) THEN 100
  ELSE 50

evaluateMadeHandStrength(handDescription) ==
  LET handDesc == ToLowerCase(handDescription) IN
  IF Includes(handDesc, <<"royal", "flush">>) THEN 1000
  ELSE IF Includes(handDesc, <<"straight", "flush">>) THEN 900
  ELSE IF Includes(handDesc, <<"four", "of", "a", "kind">>) THEN 800
  ELSE IF Includes(handDesc, <<"full", "house">>) THEN 700
  ELSE IF Includes(handDesc, <<"flush">>) /\ ~Includes(handDesc, <<"straight">>) THEN 600
  ELSE IF Includes(handDesc, <<"straight">>) /\ ~Includes(handDesc, <<"flush">>) THEN 500
  ELSE IF Includes(handDesc, <<"three", "of", "a", "kind">>) THEN 400
  ELSE IF Includes(handDesc, <<"two", "pair">>)
       THEN IF \E card \in {"aces", "kings", "queens"} : Includes(handDesc, <<card>>)
            THEN 300 ELSE 200
  ELSE IF Includes(handDesc, <<"pair", "of">>)
       THEN IF Includes(handDesc, <<"aces">>) THEN 150
            ELSE IF Includes(handDesc, <<"kings">>) THEN 140
            ELSE IF Includes(handDesc, <<"queens">>) THEN 130
            ELSE IF Includes(handDesc, <<"jacks">>) THEN 120
            ELSE 100
  ELSE 50

isGenuineBadBeat_GenericTwoPair(loserStrength, winnerStrength) ==
  \/ loserStrength >= 400
  \/ loserStrength >= 200 /\ winnerStrength > loserStrength

isGenuineBadBeat_AnyWeakerHand(loserStrength, winnerStrength) ==
  winnerStrength > loserStrength

isGenuineBadBeat_NoTripsRule(loserStrength, winnerStrength) ==
  loserStrength >= 300 /\ winnerStrength > loserStrength

\* premium two pair counts whatever the winner holds
isGenuineBadBeat_AnyPremiumTwoPair(loserStrength, winnerStrength) ==
  loserStrength >= 300

isGenuineBadBeat(loserStrength, winnerStrength) ==
  \/ loserStrength >= 400
  \/ loserStrength >= 300 /\ winnerStrength > loserStrength

getSimpleHandDescription(fullDescription) ==
  LET desc == ToLowerCase(fullDescription) IN
  IF Includes(desc, <<"royal", "flush">>) THEN <<"royal", "flush">>
  ELSE IF Includes(desc, <<"straight", "flush">>) THEN <<"straight", "flush">>
  ELSE IF Includes(desc, <<"four", "of", "a", "kind">>)
       THEN IF Includes(desc, <<"aces">>) THEN <<"quad", "aces">>
            ELSE IF Includes(desc, <<"kings">>) THEN <<"quad", "kings">>
            ELSE IF Includes(desc, <<"queens">>) THEN <<"quad", "queens">>
            ELSE <<"quads">>
  ELSE IF Includes(desc, <<"full", "house">>) THEN <<"full", "house">>
  ELSE IF Includes(desc, <<"flush">>) /\ ~Includes(desc, <<"straight">>) THEN <<"flush">>
  ELSE IF Includes(desc, <<"straight">>) /\ ~Includes(desc, <<"flush">>) THEN <<"straight">>
  ELSE IF Includes(desc, <<"three", "of", "a", "kind">>)
       THEN IF Includes(desc, <<"aces">>) THEN <<"trip", "aces">>
            ELSE IF Includes(desc, <<"kings">>) THEN <<"trip", "kings">>
            ELSE IF Includes(desc, <<"queens">>) THEN <<"trip", "queens">>
            ELSE IF Includes(desc, <<"jacks">>) THEN <<"trip", "jacks">>
            ELSE <<"trips">>
  ELSE IF Includes(desc, <<"two", "pair">>) THEN <<"two", "pair">>
  ELSE IF Includes(desc, <<"pair", "of", "aces">>) THEN <<"pocket", "aces">>
  ELSE IF Includes(desc, <<"pair", "of", "kings">>) THEN <<"pocket", "kings">>
  ELSE IF Includes(desc, <<"pair", "of", "queens">>) THEN <<"pocket", "queens">>
  ELSE IF Includes(desc, <<"pair", "of", "jacks">>) THEN <<"pocket", "jacks">>
  ELSE IF Includes(desc, <<"pair", "of">>) THEN <<"a", "pair">>
  ELSE <<"high", "card">>

\* --------------------------------------------------------------- the player map
\* a name that is null / undefined
Null == "null"
\* final_position: null (a position is never 0; 0 is falsy like null)
NullPosition == 0

\* the record parseHand creates on a player's first seat line
NewPlayerStat(chips) ==
  [hands_played |-> 0, raises |-> 0, calls |-> 0, folds |-> 0, bets |-> 0,
   checks |-> 0, showdowns |-> 0, showdown_wins |-> 0, total_won |-> 0,
   total_bet |-> 0, aggressive_actions |-> 0, passive_actions |-> 0,
   hands_voluntarily_played |-> 0, final_position |-> NullPosition,
   max_chips |-> chips, bad_beats |-> <<>>, suckouts |-> <<>>]

\* const players = {}: stat maps a registered name to its record, order is the
\* object's key order (insertion order; names are not integer-like)
EmptyPlayers == [stat |-> <<>>, order |-> <<>>]

\* players[name] is truthy
Has(ps, name) == name \in DOMAIN ps.stat

\* players[name] = st
Put(ps, name, st) ==
  [stat |-> (name :> st) @@ ps.stat,
   order |-> IF Has(ps, name) THEN ps.order ELSE Append(ps.order, name)]

Max(a, b) == IF a >= b THEN a ELSE b

\* ------------------------------------------------------------------- parseHand
\* one match of seatRegex: register on first sight, count the hand, keep max chips
SeatLine(ps, seat) ==
  LET st0 == IF Has(ps, seat.name) THEN ps.stat[seat.name]
             ELSE NewPlayerStat(seat.chips)
  IN Put(ps, seat.name,
         [st0 EXCEPT !.hands_played = @ + 1,
                     !.max_chips = Max(@, seat.chips)])

RECURSIVE RegisterSeats(_, _)
RegisterSeats(ps, seats) ==
  IF seats = <<>> THEN ps
  ELSE RegisterSeats(SeatLine(ps, Head(seats)), Tail(seats))

\* a genuine bad beat is pushed onto the victim's list and nowhere else
BadBeatEntry_VictimOnly(ps, winner, winningHand, losingHand) ==
  IF isGenuineBadBeat(evaluateMadeHandStrength(losingHand.desc),
                      evaluateMadeHandStrength(winningHand.desc))
     /\ Has(ps, losingHand.name)
  THEN Put(ps, losingHand.name,
           [ps.stat[losingHand.name] EXCEPT !.bad_beats =
              Append(@, [victim_hand |-> losingHand.desc,
                         winner_hand |-> winningHand.desc, winner |-> winner,
                         description |-> <<losingHand.name, "had">>])])
  ELSE ps

\* the suckout's description quotes the winner's shown hand as written
BadBeatEntry_QuotedHand(ps, winner, winningHand, losingHand) ==
  LET victimName == losingHand.name
      victimDesc == getSimpleHandDescription(losingHand.desc)
      winnerDesc == getSimpleHandDescription(winningHand.desc)
      badBeatInfo ==
        [victim_hand |-> losingHand.desc, winner_hand |-> winningHand.desc,
         winner |-> winner,
         description |-> <<victimName, "had">> \o victimDesc
                         \o <<"got", "cracked", "by", winner>> \o winnerDesc]
      suckoutInfo ==
        [winning_hand |-> winningHand.desc, victim |-> victimName,
         victim_hand |-> losingHand.desc,
         description |-> <<"Sucked", "out", "with">> \o winningHand.desc
                         \o <<"vs">> \o victimDesc]
      ps1 == IF Has(ps, victimName)
             THEN Put(ps, victimName,
                      [ps.stat[victimName] EXCEPT !.bad_beats = Append(@, badBeatInfo)])
             ELSE ps
  IN IF isGenuineBadBeat(evaluateMadeHandStrength(losingHand.desc),
                         evaluateMadeHandStrength(winningHand.desc))
     THEN IF Has(ps1, winner)
          THEN Put(ps1, winner,
                   [ps1.stat[winner] EXCEPT !.suckouts = Append(@, suckoutInfo)])
          ELSE ps1
     ELSE ps

\* one losing hand of the forEach at part_001:838
BadBeatEntry(ps, winner, winningHand, losingHand) ==
  LET victimName == losingHand.name
      victimDesc == getSimpleHandDescription(losingHand.desc)
      winnerDesc == getSimpleHandDescription(winningHand.desc)
      badBeatInfo ==
        [victim_hand |-> losingHand.desc, winner_hand |-> winningHand.desc,
         winner |-> winner,
         description |-> <<victimName, "had">> \o victimDesc
                         \o <<"got", "cracked", "by", winner>> \o winnerDesc]
      suckoutInfo ==
        [winning_hand |-> winningHand.desc, victim |-> victimName,
         victim_hand |-> losingHand.desc,
         description |-> <<"Sucked", "out", "with">> \o winnerDesc
                         \o <<"vs">> \o victimDesc]
      ps1 == IF Has(ps, victimName)
             THEN Put(ps, victimName,
                      [ps.stat[victimName] EXCEPT !.bad_beats = Append(@, badBeatInfo)])
             ELSE ps
  IN IF isGenuineBadBeat(evaluateMadeHandStrength(losingHand.desc),
                         evaluateMadeHandStrength(winningHand.desc))
     THEN IF Has(ps1, winner)
          THEN Put(ps1, winner,
                   [ps1.stat[winner] EXCEPT !.suckouts = Append(@, suckoutInfo)])
          ELSE ps1
     ELSE ps

RECURSIVE BadBeatLoop(_, _, _, _)
BadBeatLoop(ps, winner, winningHand, losingHands) ==
  IF losingHands = <<>> THEN ps
  ELSE BadBeatLoop(BadBeatEntry(ps, winner, winningHand, Head(losingHands)),
                   winner, winningHand, Tail(losingHands))

\* the (player, description) pairs showdownRegex matches after the marker
ShowdownMatches(h) == IF h.showdown THEN h.shows ELSE <<>>

\* winnerMatches.length > 1: several pot collections, a split pot
IsSplitPot(h) == Len(h.collects) > 1

\* as analyzeShowdownForBadBeats, without either test on the number of pot
\* collections
analyzeShowdownForBadBeats_AnyCollectors(h, ps) ==
  LET showdownMatches == ShowdownMatches(h)
      winnerMatches == h.collects
      winner == IF winnerMatches # <<>> THEN winnerMatches[1].name ELSE Null
      losingHands == SelectSeq(showdownMatches, LAMBDA s : s.name # winner)
      winningHands == SelectSeq(showdownMatches, LAMBDA s : s.name = winner)
  IN IF ~h.showdown THEN ps
     ELSE IF h.split THEN ps
     ELSE IF Len(showdownMatches) >= 2 /\ winner # Null
             /\ losingHands # <<>> /\ winningHands # <<>>
          THEN BadBeatLoop(ps, winner, winningHands[1], losingHands)
          ELSE ps

analyzeShowdownForBadBeats(h, ps) ==
  LET showdownMatches == ShowdownMatches(h)
      winnerMatches == h.collects
      winner == IF winnerMatches # <<>> THEN winnerMatches[1].name ELSE Null
      losingHands == SelectSeq(showdownMatches, LAMBDA s : s.name # winner)
      winningHands == SelectSeq(showdownMatches, LAMBDA s : s.name = winner)
  IN IF ~h.showdown THEN ps
     ELSE IF IsSplitPot(h) THEN ps
     ELSE IF h.split THEN ps
     ELSE IF Len(showdownMatches) >= 2 /\ winner # Null /\ Len(winnerMatches) = 1
             /\ losingHands # <<>> /\ winningHands # <<>>
          THEN BadBeatLoop(ps, winner, winningHands[1], losingHands)
          ELSE ps

\* an action pattern matched, with only raises routed to aggressive_actions
ActionLine_BetsUnrouted(ps, a) ==
  IF Has(ps, a.name)
  THEN LET st1 == [ps.stat[a.name] EXCEPT ![a.type] = @ + 1]
       IN Put(ps, a.name,
              IF a.type = "raises" THEN [st1 EXCEPT !.aggressive_actions = @ + 1]
              ELSE IF a.type \in {"calls", "checks"}
              THEN [st1 EXCEPT !.passive_actions = @ + 1]
              ELSE st1)
  ELSE ps

\* one match of an action pattern
ActionLine(ps, a) ==
  IF Has(ps, a.name)
  THEN LET st1 == [ps.stat[a.name] EXCEPT ![a.type] = @ + 1]
           st2 == IF a.type \in {"raises", "bets"}
                  THEN [st1 EXCEPT !.aggressive_actions = @ + 1]
                  ELSE IF a.type \in {"calls", "checks"}
                  THEN [st1 EXCEPT !.passive_actions = @ + 1]
                  ELSE st1
       IN Put(ps, a.name, st2)
  ELSE ps

RECURSIVE CountActions(_, _)
CountActions(ps, acts) ==
  IF acts = <<>> THEN ps
  ELSE CountActions(ActionLine(ps, Head(acts)), Tail(acts))

\* voluntaryPlayers: the names voluntaryRegex matches (a raise, call or fold
\* not followed by " before Flop")
VoluntaryPlayers(h) ==
  {h.acts[i].name : i \in {j \in 1..Len(h.acts) :
       h.acts[j].type \in {"raises", "calls", "folds"} /\ ~h.acts[j].beforeFlop}}

TrackVoluntary(ps, h) ==
  [ps EXCEPT !.stat = [n \in DOMAIN ps.stat |->
     IF n \in VoluntaryPlayers(h)
     THEN [ps.stat[n] EXCEPT !.hands_voluntarily_played = @ + 1]
     ELSE ps.stat[n]]]

\* one match of /(name): shows.*?and (won|lost)/
ShowdownLine(ps, s) ==
  IF s.result \in {"won", "lost"} /\ Has(ps, s.name)
  THEN Put(ps, s.name,
           [ps.stat[s.name] EXCEPT
              !.showdowns = @ + 1,
              !.showdown_wins = IF s.result = "won" THEN @ + 1 ELSE @])
  ELSE ps

RECURSIVE TrackShowdowns(_, _)
TrackShowdowns(ps, shows) ==
  IF shows = <<>> THEN ps
  ELSE TrackShowdowns(ShowdownLine(ps, Head(shows)), Tail(shows))

\* one match of collectedRegex
CollectLine(ps, c) ==
  IF Has(ps, c.name)
  THEN Put(ps, c.name, [ps.stat[c.name] EXCEPT !.total_won = @ + c.amount])
  ELSE ps

RECURSIVE TrackWinnings(_, _)
TrackWinnings(ps, collects) ==
  IF collects = <<>> THEN ps
  ELSE TrackWinnings(CollectLine(ps, Head(collects)), Tail(collects))

parseHand(h, ps) ==
  LET ps1 == RegisterSeats(ps, h.seats)
      ps2 == IF h.showdown THEN analyzeShowdownForBadBeats(h, ps1) ELSE ps1
      ps3 == CountActions(ps2, h.acts)
      ps4 == TrackVoluntary(ps3, h)
      ps5 == IF h.showdown THEN TrackShowdowns(ps4, h.shows) ELSE ps4
  IN TrackWinnings(ps5, h.collects)

\* ------------------------------------------------------ determineFinalPositions
\* the players at final_position === null, in key order
Unassigned(ps) == SelectSeq(ps.order, LAMBDA n : ps.stat[n].final_position = NullPosition)

\* unassigned.sort((a, b) => b.max_chips - a.max_chips)[0]: the sort is stable,
\* so the first player in key order among those with the highest max_chips
\* the first unassigned player in key order, whatever the chips
FirstMaxChips_KeyOrder(ps, names, best) == best

RECURSIVE FirstMaxChips(_, _, _)
FirstMaxChips(ps, names, best) ==
  IF names = <<>> THEN best
  ELSE FirstMaxChips(ps, Tail(names),
         IF ps.stat[Head(names)].max_chips > ps.stat[best].max_chips
         THEN Head(names) ELSE best)

\* the last finalist that is not the winner and is a registered player
FirstOtherFinalist_Last(ps, finalists, winner) ==
  LET others == SelectSeq(finalists, LAMBDA f : f # winner /\ Has(ps, f))
  IN IF others = <<>> THEN Null ELSE others[Len(others)]

\* the first finalist that is not the winner and is a registered player
FirstOtherFinalist(ps, finalists, winner) ==
  LET others == SelectSeq(finalists, LAMBDA f : f # winner /\ Has(ps, f))
  IN IF others = <<>> THEN Null ELSE others[1]

SetPosition(ps, name, pos) ==
  IF name # Null /\ Has(ps, name)
  THEN Put(ps, name, [ps.stat[name] EXCEPT !.final_position = pos])
  ELSE ps

\* part_001:966: the final hand decides 1st and 2nd only when somebody showed
FinalHandDecides(finalHand) ==
  finalHand.collects # <<>> /\ finalHand.shows # <<>>

\* the third place is not given
determineFinalPositions_NoThird(ps, hands) ==
  LET ps0 == [ps EXCEPT !.stat =
                [n \in DOMAIN ps.stat |-> [ps.stat[n] EXCEPT !.final_position = NullPosition]]]
      finalHand == hands[Len(hands)]
      winner == finalHand.collects[1].name
      finalists == [i \in 1..Len(finalHand.shows) |-> finalHand.shows[i].name]
  IN IF hands # <<>> /\ FinalHandDecides(finalHand)
     THEN SetPosition(SetPosition(ps0, winner, 1),
                      FirstOtherFinalist(ps0, finalists, winner), 2)
     ELSE ps0

determineFinalPositions(ps, hands) ==
  LET ps0 == [ps EXCEPT !.stat =
                [n \in DOMAIN ps.stat |-> [ps.stat[n] EXCEPT !.final_position = NullPosition]]]
      finalHand == hands[Len(hands)]
      winner == finalHand.collects[1].name
      finalists == [i \in 1..Len(finalHand.shows) |-> finalHand.shows[i].name]
      ps2 == IF hands # <<>> /\ FinalHandDecides(finalHand)
             THEN SetPosition(SetPosition(ps0, winner, 1),
                              FirstOtherFinalist(ps0, finalists, winner), 2)
             ELSE ps0
      unassigned == Unassigned(ps2)
  IN IF unassigned # <<>>
     THEN SetPosition(ps2, FirstMaxChips(ps2, Tail(unassigned), Head(unassigned)), 3)
     ELSE ps2

\* ----------------------------------------------------------------- calculateAwards
\* ratios are kept as numerator/denominator and compared by cross-multiplication
RECURSIVE FirstMaxRatio(_, _, _, _)
FirstMaxRatio(cands, best, bn, bd) ==
  IF cands = <<>> THEN best
  ELSE LET c == Head(cands) IN
       IF c.num * bd > bn * c.den
       THEN FirstMaxRatio(Tail(cands), c.name, c.num, c.den)
       ELSE FirstMaxRatio(Tail(cands), best, bn, bd)

RECURSIVE FirstMinRatio(_, _, _, _)
FirstMinRatio(cands, best, bn, bd) ==
  IF cands = <<>> THEN best
  ELSE LET c == Head(cands) IN
       IF c.num * bd < bn * c.den
       THEN FirstMinRatio(Tail(cands), c.name, c.num, c.den)
       ELSE FirstMinRatio(Tail(cands), best, bn, bd)

\* cands.sort((a, b) => b[1] - a[1])[0][0]
SortedFirst(cands) ==
  FirstMaxRatio(Tail(cands), Head(cands).name, Head(cands).num, Head(cands).den)

\* !awardedPlayers.has(name)
NotAwarded_Ignored(awarded, name) == TRUE

NotAwarded(awarded, name) == name \notin awarded

NumPlayers(ps) == Len(ps.order)

\* Object.entries(players).filter(...) for a filter on (name, data)
Ratios(ps, names, Num(_), Den(_)) ==
  [i \in 1..Len(names) |->
     [name |-> names[i], num |-> Num(ps.stat[names[i]]), den |-> Den(ps.stat[names[i]])]]

HandsDen(data) == Max(IF data.hands_played = 0 THEN 1 ELSE data.hands_played, 1)
ShowdownsDen(data) == Max(IF data.showdowns = 0 THEN 1 ELSE data.showdowns, 1)

FirstWithPosition(ps, pos) ==
  LET c == SelectSeq(ps.order, LAMBDA n : ps.stat[n].final_position = pos)
  IN IF c = <<>> THEN Null ELSE c[1]

MostAggressive(ps, awarded) ==
  LET names == SelectSeq(ps.order, LAMBDA n :
                 ps.stat[n].hands_played > 5 /\ NotAwarded(awarded, n))
      AggNum(data) == data.aggressive_actions
  IN FirstMaxRatio(Ratios(ps, names, AggNum, HandsDen), Null, 0, 1)

CallingStation(ps, awarded) ==
  LET names == SelectSeq(ps.order, LAMBDA n :
                 NotAwarded(awarded, n) /\ ps.stat[n].hands_played > 5)
      CallNum(data) == data.calls
  IN FirstMaxRatio(Ratios(ps, names, CallNum, HandsDen), Null, 0, 1)

TightestPlayer(ps, awarded) ==
  LET names == SelectSeq(ps.order, LAMBDA n :
                 NotAwarded(awarded, n) /\ ps.stat[n].hands_played > 5)
      VolNum(data) == data.hands_voluntarily_played
  IN FirstMinRatio(Ratios(ps, names, VolNum, HandsDen), Null, 1, 1)

\* Math.min(...allChips), the smallest max_chips > 0; 0 when allChips is empty
MinChips(ps) ==
  LET allChips == {ps.stat[n].max_chips : n \in DOMAIN ps.stat} \ {0}
  IN IF allChips = {} THEN 0
     ELSE CHOOSE c \in allChips : \A d \in allChips : c <= d

ComebackKid(ps, awarded) ==
  LET N == NumPlayers(ps)
      minChips == MinChips(ps)
      names == IF minChips = 0 THEN <<>>
               ELSE SelectSeq(ps.order, LAMBDA n :
                      /\ NotAwarded(awarded, n)
                      /\ ps.stat[n].final_position # NullPosition
                      /\ ps.stat[n].max_chips <= minChips * 2
                      /\ 2 * ps.stat[n].final_position <= N)
      ScoreNum(data) == N - data.final_position
      ScoreDen(data) == Max(data.max_chips, 1)
  IN IF names = <<>> THEN Null
     ELSE SortedFirst(Ratios(ps, names, ScoreNum, ScoreDen))

\* the digits 7 and 2 occurring in a word of the vocabulary used in the inputs
DigitsIn(w) ==
  CASE w = "7s" -> {"7"}
    [] w = "2s" -> {"2"}
    [] w = "7-2" -> {"7", "2"}
    [] OTHER -> {}

\* text.toLowerCase().includes(ch) for a digit ch
IncludesDigit(d, ch) == \E i \in 1..Len(d) : ch \in DigitsIn(d[i])

IsYoloSuckout(suckout) ==
  LET description == ToLowerCase(suckout.description)
  IN \/ IncludesDigit(description, "7")
     \/ IncludesDigit(description, "2")
     \/ Includes(description, <<"offsuit">>)
     \/ Includes(description, <<"unsuited">>)

IsHeroSuckout(suckout) ==
  LET winningHand == ToLowerCase(suckout.winning_hand)
  IN \/ IncludesDigit(winningHand, "7") /\ IncludesDigit(winningHand, "2")
     \/ Includes(winningHand, <<"worst">>)

AnySuckout(data, Pred(_)) ==
  \E i \in 1..Len(data.suckouts) : Pred(data.suckouts[i])

YoloAward(ps, awarded) ==
  LET names == SelectSeq(ps.order, LAMBDA n :
                 NotAwarded(awarded, n) /\ AnySuckout(ps.stat[n], IsYoloSuckout))
  IN IF names = <<>> THEN Null ELSE names[1]

\* only a player with a position can be a survivor
IsSurvivor_RankedOnly(data, N) ==
  data.final_position # NullPosition /\ 5 * data.final_position > 3 * N

\* (data.final_position || 999) > N * 0.6
IsSurvivor(data, N) ==
  5 * (IF data.final_position = NullPosition THEN 999 ELSE data.final_position) > 3 * N

DoggyPaddling(ps, awarded) ==
  LET N == NumPlayers(ps)
      names == SelectSeq(ps.order, LAMBDA n :
                 NotAwarded(awarded, n) /\ IsSurvivor(ps.stat[n], N))
      HandsNum(data) == data.hands_played
      One(data) == 1
  IN FirstMaxRatio(Ratios(ps, names, HandsNum, One), Null, 0, 1)

HollywoodActor(ps, awarded) ==
  LET names == SelectSeq(ps.order, LAMBDA n :
                 NotAwarded(awarded, n) /\ ps.stat[n].bets > 2)
      BetsNum(data) == data.bets
  IN FirstMaxRatio(Ratios(ps, names, BetsNum, ShowdownsDen), Null, 0, 1)

SevenTwoHero(ps, awarded) ==
  LET names == SelectSeq(ps.order, LAMBDA n :
                 NotAwarded(awarded, n) /\ AnySuckout(ps.stat[n], IsHeroSuckout))
  IN IF names = <<>> THEN Null ELSE names[1]

\* donkeyScore = vpip / (winRate + 0.1)
\*             = 10 * sd * voluntary / (hands * (10 * wins + sd)), sd = max(showdowns, 1)
DonkeyNum(data) == 10 * ShowdownsDen(data) * data.hands_voluntarily_played
DonkeyDen(data) == data.hands_played * (10 * data.showdown_wins + ShowdownsDen(data))

IsDonkeyCandidate(data) ==
  /\ data.hands_played > 10
  /\ 5 * data.hands_voluntarily_played > 2 * data.hands_played
  /\ 10 * data.showdown_wins < 3 * ShowdownsDen(data)

Donkey(ps, awarded) ==
  LET names == SelectSeq(ps.order, LAMBDA n :
                 NotAwarded(awarded, n) /\ IsDonkeyCandidate(ps.stat[n]))
      worst == SortedFirst(Ratios(ps, names, DonkeyNum, DonkeyDen))
  IN IF names = <<>> THEN Null
     ELSE IF 2 * DonkeyNum(ps.stat[worst]) > 3 * DonkeyDen(ps.stat[worst])
          THEN worst ELSE Null

\* Math.round(vpip * 100)
DonkeyPercent(data) ==
  (200 * data.hands_voluntarily_played + data.hands_played) \div (2 * data.hands_played)

IsAbcCandidate(data) ==
  /\ data.hands_played > 5
  /\ 20 * data.aggressive_actions > 3 * data.hands_played
  /\ 20 * data.aggressive_actions < 7 * data.hands_played

AbcPlayer(ps, awarded) ==
  LET names == SelectSeq(ps.order, LAMBDA n :
                 NotAwarded(awarded, n) /\ IsAbcCandidate(ps.stat[n]))
      WinsNum(data) == data.showdown_wins
      One(data) == 1
  IN FirstMaxRatio(Ratios(ps, names, WinsNum, One), Null, 0, 1)

\* the bubble position rounded down from N / 2
BubblePosition_HalfDown(N) == N \div 2

BubblePosition(N) == (N + 1) \div 2

BubbleBoy_Exclusive(ps, awarded) ==
  LET c == SelectSeq(ps.order, LAMBDA n :
             ps.stat[n].final_position = BubblePosition(NumPlayers(ps))
             /\ n \notin awarded)
  IN IF NumPlayers(ps) >= 4 /\ c # <<>> THEN c[1] ELSE Null

\* the bubble position looked up whatever the number of players
BubbleBoy_AnyCount(ps, awarded) ==
  FirstWithPosition(ps, BubblePosition(NumPlayers(ps)))

BubbleBoy(ps, awarded) ==
  IF NumPlayers(ps) >= 4
  THEN FirstWithPosition(ps, BubblePosition(NumPlayers(ps)))
  ELSE Null

getSampleAwards ==
  [a \in {"Tournament Champion", "Most Aggressive", "Calling Station"} |->
     [winner |-> CASE a = "Tournament Champion" -> "Player1"
                   [] a = "Most Aggressive" -> "Player2"
                   [] a = "Calling Station" -> "Player3",
      stat |-> IF a = "Tournament Champion" THEN <<"Outlasted", 5>> ELSE <<a>>]]

BehavioralAwards ==
  <<"Most Aggressive", "Calling Station", "Tightest Player", "Comeback Kid",
    "YOLO Award", "Doggy Paddling Award", "Hollywood Actor", "7-2 Hero",
    "Donkey", "ABC Player">>

PlacementAwards == {"Tournament Champion", "Runner Up", "Bubble Boy"}

\* the winner the k-th behavioral category picks, given the exclusion set
BehavioralWinner(k, ps, awarded) ==
  CASE k = 1 -> MostAggressive(ps, awarded)
    [] k = 2 -> CallingStation(ps, awarded)
    [] k = 3 -> TightestPlayer(ps, awarded)
    [] k = 4 -> ComebackKid(ps, awarded)
    [] k = 5 -> YoloAward(ps, awarded)
    [] k = 6 -> DoggyPaddling(ps, awarded)
    [] k = 7 -> HollywoodActor(ps, awarded)
    [] k = 8 -> SevenTwoHero(ps, awarded)
    [] k = 9 -> Donkey(ps, awarded)
    [] k = 10 -> AbcPlayer(ps, awarded)

AwardStat(a, ps, winner) ==
  IF a = "Tournament Champion" THEN <<"Outlasted", NumPlayers(ps) - 1>>
  ELSE IF a = "Donkey" THEN <<"Played", DonkeyPercent(ps.stat[winner])>>
  ELSE <<a>>

\* awards[a] = {winner, ...} when a winner was found
Issue(acc, a, ps, winner, exclusive) ==
  IF winner = Null THEN acc
  ELSE [awards |-> (a :> [winner |-> winner, stat |-> AwardStat(a, ps, winner)])
                   @@ acc.awards,
        awarded |-> IF exclusive THEN acc.awarded \cup {winner} ELSE acc.awarded]

\* the behavioral categories decided from the last one to the k-th
RECURSIVE BehavioralFrom_LastFirst(_, _, _)
BehavioralFrom_LastFirst(k, ps, acc) ==
  IF k > Len(BehavioralAwards) THEN acc
  ELSE LET later == BehavioralFrom_LastFirst(k + 1, ps, acc)
       IN Issue(later, BehavioralAwards[k], ps,
                BehavioralWinner(k, ps, later.awarded), TRUE)

RECURSIVE BehavioralFrom(_, _, _)
BehavioralFrom(k, ps, acc) ==
  IF k > Len(BehavioralAwards) THEN acc
  ELSE BehavioralFrom(k + 1, ps,
         Issue(acc, BehavioralAwards[k], ps,
               BehavioralWinner(k, ps, acc.awarded), TRUE))

\* the behavioral categories k to last, in order
RECURSIVE BehavioralUpTo(_, _, _, _)
BehavioralUpTo(k, last, ps, acc) ==
  IF k > last THEN acc
  ELSE BehavioralUpTo(k + 1, last, ps,
         Issue(acc, BehavioralAwards[k], ps,
               BehavioralWinner(k, ps, acc.awarded), TRUE))

\* what a call gives back: the mapping of a return statement, or undefined
\* when the body ends without reaching one
Returned(a) == [undefined |-> FALSE, awards |-> a]
Undefined == [undefined |-> TRUE, awards |-> <<>>]

\* part_001:1-345, the first copy.  The empty map returns {}.  The line
\* if (donkeyCandidates.length > 0) { stands twice (282, 283): the inner block
\* ends where the Donkey block ends (295), the outer one only after
\* return awards (344), so ABC Player, Bubble Boy and the return statement
\* run only when there is a Donkey candidate.
calculateAwardsFirstCopy(ps) ==
  IF NumPlayers(ps) = 0 THEN Returned(<<>>)
  ELSE LET a0 == [awards |-> <<>>, awarded |-> {}]
           a1 == Issue(a0, "Tournament Champion", ps, FirstWithPosition(ps, 1), FALSE)
           a2 == Issue(a1, "Runner Up", ps, FirstWithPosition(ps, 2), FALSE)
           a3 == BehavioralUpTo(1, 8, ps, a2)
           donkeyCandidates ==
             SelectSeq(ps.order, LAMBDA n :
               NotAwarded(a3.awarded, n) /\ IsDonkeyCandidate(ps.stat[n]))
           a4 == BehavioralUpTo(9, 10, ps, a3)
           a5 == Issue(a4, "Bubble Boy", ps, BubbleBoy(ps, a4.awarded), FALSE)
       IN IF donkeyCandidates # <<>> THEN Returned(a5.awards) ELSE Undefined

calculateAwards(ps) ==
  IF NumPlayers(ps) = 0 THEN getSampleAwards
  ELSE LET a0 == [awards |-> <<>>, awarded |-> {}]
           a1 == Issue(a0, "Tournament Champion", ps, FirstWithPosition(ps, 1), FALSE)
           a2 == Issue(a1, "Runner Up", ps, FirstWithPosition(ps, 2), FALSE)
           a3 == BehavioralFrom(1, ps, a2)
           a4 == Issue(a3, "Bubble Boy", ps, BubbleBoy(ps, a3.awarded), FALSE)
       IN a4.awards

\* --------------------------------------------------------------- extractFromTxt
RECURSIVE ParseHands(_, _)
\* hands.forEach(handText => this.parseHand(handText, players))
ParseHands(hands, ps) ==
  IF hands = <<>> THEN ps ELSE ParseHands(Tail(hands), parseHand(Head(hands), ps))

\* ------------------------------------------------------------------- the summary
\* new Date().toLocaleDateString(): the calendar day of the instant
TicksPerDay == 2
toLocaleDateString(now) == "day " \o ToString(now \div TicksPerDay)
\* new Date().toISOString(): the instant itself
toISOString(now) == "instant " \o ToString(now)

RECURSIVE ClubEntries(_, _)
ClubEntries(ps, names) ==
  IF names = <<>> THEN <<>>
  ELSE LET n == Head(names)
           bb == ps.stat[n].bad_beats
       IN [k \in 1..Len(bb) |->
             [victim |-> n, victim_hand |-> bb[k].victim_hand, winner |-> bb[k].winner,
              winner_hand |-> bb[k].winner_hand, description |-> bb[k].description]]
          \o ClubEntries(ps, Tail(names))

extractPreparationHClub(ps) == ClubEntries(ps, ps.order)

\* tournamentInfo.date || new Date().toLocaleDateString()
TournamentDate(text, now) ==
  IF text.date # Null THEN text.date ELSE toLocaleDateString(now)

\* the record parseTxt returns (part_001:615-622)
Summary(text, ps, aw, now) ==
  [tournament_date |-> TournamentDate(text, now),
   tournament_id |-> IF text.id # Null THEN text.id ELSE "Unknown",
   total_players |-> NumPlayers(ps),
   awards |-> aw,
   preparation_h_club |-> extractPreparationHClub(ps),
   last_updated |-> toISOString(now)]

\* ------------------------------------------------------------------------ inputs
Seat(n, c) == [name |-> n, chips |-> c]
Act(n, t) == [name |-> n, type |-> t, beforeFlop |-> FALSE]
Show(n, d) == [name |-> n, desc |-> d, result |-> ""]
Collect(n, amt) == [name |-> n, amount |-> amt]

Hand(seats, acts, shows, collects) ==
  [seats |-> seats, acts |-> acts, showdown |-> shows # <<>>, shows |-> shows,
   collects |-> collects, split |-> FALSE]

PairOfSevens == <<"a", "pair", "of", "Sevens">>
TwoPairTens == <<"two", "pair", "Tens", "and", "Fives">>
TwoPairAces == <<"two", "pair", "Aces", "and", "Fives">>
AceHighFlush == <<"a", "flush", "Ace", "high">>
FullHouse == <<"a", "full", "house">>

AllSeated == <<Seat("A", 1000), Seat("B", 500), Seat("C", 300)>>

\* the one-hand scenario: A raises, B calls, C folds, A shows a full house,
\* B shows a pair of sevens, A collects 1800
ScenarioHand ==
  Hand(AllSeated,
       <<Act("A", "raises"), Act("B", "calls"), Act("C", "folds")>>,
       <<Show("A", FullHouse), Show("B", PairOfSevens)>>,
       <<Collect("A", 1800)>>)

SeatOptions ==
  {AllSeated,
   <<Seat("B", 800), Seat("C", 1000)>>,
   <<Seat("C", 1800)>>}

ActOptions ==
  {<<>>,
   <<Act("A", "raises"), Act("B", "calls"), Act("A", "bets"), Act("B", "folds")>>,
   <<[Act("A", "folds") EXCEPT !.beforeFlop = TRUE], Act("B", "checks"), Act("C", "checks")>>,
   <<Act("C", "raises"), Act("A", "calls")>>}

EndOptions ==
  {[shows |-> <<>>, collects |-> <<>>],
   [shows |-> <<>>, collects |-> <<Collect("B", 600)>>],
   [shows |-> <<Show("C", AceHighFlush), Show("B", TwoPairAces)>>,
    collects |-> <<Collect("C", 600)>>]}

\* hands that vary the seat list, the actions and the way the hand ends
HandInputs ==
  {Hand(s, a, e.shows, e.collects) : s \in SeatOptions, a \in ActOptions, e \in EndOptions}
  \cup {ScenarioHand}

Dates == {Null, "2024/01/15 20:00:00"}

\* the transcripts of at most MaxHands hands over the hand records Hs; a hand
\* header carries the tournament number, a text without hands may or may not
TranscriptsOver(Hs, Ds) ==
  {[id |-> id, date |-> d, hands |-> hs] :
     id \in {"3928736979"}, d \in Ds,
     hs \in UNION {[1..n -> Hs] : n \in 1..MaxHands}}
  \cup {[id |-> id, date |-> d, hands |-> <<>>] :
          id \in {Null, "3928736979"}, d \in Ds}

\* ------------------------------------------------------------------------- state
VARIABLES
  content,   \* the transcript given to parseTxt
  pc,        \* where parseTxt is: "hands", "awards", "return", "done"
  i,         \* index of the next hand of hands.forEach
  players,   \* the players map of the running parse
  awards,    \* the mapping calculateAwards returned
  summary,   \* the record parseTxt returned
  prev,      \* the record an earlier parseTxt of the same content returned
  clock,     \* the current instant
  DB,        \* env.DB: the rows of tournament_results and its AUTOINCREMENT counter
  uploads,   \* the upload requests in flight: where each handler is, what it answered
  loaded     \* what the last call of loadTournamentResults returned

vars == <<content, pc, i, players, awards, summary, prev, clock, DB, uploads, loaded>>

\* the database and the requests, untouched by the parser
dbvars == <<DB, uploads, loaded>>

\* CREATE TABLE IF NOT EXISTS tournament_results: an empty table
EmptyDb == [rows |-> <<>>, seq |-> 0]

\* no request has been received
DbIdle ==
  /\ DB = EmptyDb
  /\ uploads = [req |-> <<>>, finished |-> <<>>]
  /\ loaded = [kind |-> "none", tournament_id |-> 0, afterSave |-> FALSE,
               threw |-> FALSE]

NoSummary == [total_players |-> -1]

\* a players map that outlives the call that filled it
PlayersAtEntry_Shared == players

\* const players = {}: the map a call of extractFromTxt starts from
PlayersAtEntry == EmptyPlayers

InitOver(Hs, Ds) ==
  /\ content \in TranscriptsOver(Hs, Ds)
  /\ pc = "hands"
  /\ i = 1
  /\ players = EmptyPlayers
  /\ awards = <<>>
  /\ summary = NoSummary
  /\ prev = NoSummary
  /\ clock = 0
  /\ DbIdle

Init == InitOver(HandInputs, Dates)

\* hands.forEach: one call of parseHand
ParseHandStep ==
  /\ pc = "hands"
  /\ i <= Len(content.hands)
  /\ players' = parseHand(content.hands[i], players)
  /\ i' = i + 1
  /\ UNCHANGED <<content, pc, awards, summary, prev, clock>>
  /\ UNCHANGED dbvars

\* after the last hand: determineFinalPositions(players, text)
DetermineFinalPositionsStep ==
  /\ pc = "hands"
  /\ i > Len(content.hands)
  /\ players' = determineFinalPositions(players, content.hands)
  /\ pc' = "awards"
  /\ UNCHANGED <<content, i, awards, summary, prev, clock>>
  /\ UNCHANGED dbvars

CalculateAwardsStep ==
  /\ pc = "awards"
  /\ awards' = calculateAwards(players)
  /\ pc' = "return"
  /\ UNCHANGED <<content, i, players, summary, prev, clock>>
  /\ UNCHANGED dbvars

Return ==
  /\ pc = "return"
  /\ summary' = Summary(content, players, awards, clock)
  /\ pc' = "done"
  /\ UNCHANGED <<content, i, players, awards, prev, clock>>
  /\ UNCHANGED dbvars

\* time passes between two calls of parseTxt
Tick ==
  /\ pc = "done"
  /\ prev = NoSummary
  /\ clock < MaxClock
  /\ clock' = clock + 1
  /\ UNCHANGED <<content, pc, i, players, awards, summary, prev>>
  /\ UNCHANGED dbvars

\* parseTxt is called again on the same content: extractFromTxt starts from a
\* fresh players map
Reparse ==
  /\ pc = "done"
  /\ prev = NoSummary
  /\ prev' = summary
  /\ pc' = "hands"
  /\ i' = 1
  /\ players' = PlayersAtEntry
  /\ awards' = <<>>
  /\ summary' = NoSummary
  /\ UNCHANGED <<content, clock>>
  /\ UNCHANGED dbvars

ParseTxt == ParseHandStep \/ DetermineFinalPositionsStep \/ CalculateAwardsStep \/ Return

Next == ParseTxt

\* one call of parseTxt on every transcript over HandInputs
Spec == Init /\ [][Next]_vars

\* --------------------------------------------------------------- showdown inputs
ThreeJacks == <<"three", "of", "a", "kind", "Jacks">>
SevensFullOfDeuces == <<"a", "full", "house", "7s", "full", "of", "2s">>

WinnerDescs == {TwoPairAces, AceHighFlush, FullHouse}
LoserDescs == {PairOfSevens, TwoPairTens, TwoPairAces, ThreeJacks, FullHouse}

\* A and B show; A collects alone, or A and B both collect
TwoShowHands ==
  {Hand(AllSeated, <<>>, <<Show("A", w), Show("B", l)>>, c) :
     w \in WinnerDescs, l \in LoserDescs,
     c \in {<<Collect("A", 900)>>, <<Collect("A", 450), Collect("B", 450)>>}}

SpecialShowHands ==
  {\* split-pot language with a single collection
   [Hand(AllSeated, <<>>, <<Show("A", AceHighFlush), Show("B", FullHouse)>>,
         <<Collect("A", 900)>>) EXCEPT !.split = TRUE],
   \* the collector did not show
   Hand(AllSeated, <<>>, <<Show("A", AceHighFlush), Show("B", FullHouse)>>,
        <<Collect("C", 900)>>),
   \* nobody collects
   Hand(AllSeated, <<>>, <<Show("A", AceHighFlush), Show("B", FullHouse)>>, <<>>),
   \* the loser has no seat line
   Hand(<<Seat("A", 1000), Seat("C", 300)>>, <<>>,
        <<Show("A", AceHighFlush), Show("B", FullHouse)>>, <<Collect("A", 900)>>),
   \* the winner has no seat line
   Hand(<<Seat("B", 500), Seat("C", 300)>>, <<>>,
        <<Show("A", AceHighFlush), Show("B", FullHouse)>>, <<Collect("A", 900)>>),
   \* three players show, the last one collects; the lines carry a result
   Hand(AllSeated, <<Act("B", "bets"), Act("C", "calls"), Act("A", "raises")>>,
        <<[Show("B", ThreeJacks) EXCEPT !.result = "lost"],
          [Show("C", TwoPairTens) EXCEPT !.result = "lost"],
          [Show("A", FullHouse) EXCEPT !.result = "won"]>>,
        <<Collect("A", 1800)>>),
   \* the collector's shown hand is written with the digits 7 and 2
   Hand(AllSeated, <<>>, <<Show("A", SevensFullOfDeuces), Show("B", ThreeJacks)>>,
        <<Collect("A", 900)>>),
   \* a single player shows and collects
   Hand(AllSeated, <<>>, <<Show("B", FullHouse)>>, <<Collect("B", 900)>>),
   \* A and C tie with a full house and split the pot, B's lower full house loses
   Hand(AllSeated, <<>>,
        <<Show("A", FullHouse), Show("B", FullHouse), Show("C", FullHouse)>>,
        <<Collect("A", 450), Collect("C", 450)>>)}

ShowdownHands == TwoShowHands \cup SpecialShowHands

InitShowdown == InitOver(ShowdownHands, {"2024/01/15 20:00:00"})

\* one call of parseTxt on every transcript over ShowdownHands
SpecShowdown == InitShowdown /\ [][Next]_vars

\* ----------------------------------------------------------- parsing a text twice
TwiceHands ==
  {ScenarioHand,
   Hand(AllSeated, <<Act("B", "raises")>>, <<>>, <<Collect("B", 300)>>),
   Hand(AllSeated, <<>>, <<Show("A", AceHighFlush), Show("B", FullHouse)>>,
        <<Collect("A", 900)>>)}

InitTwice == InitOver(TwiceHands, Dates)

NextTwice == ParseTxt \/ Tick \/ Reparse

\* parseTxt is called on a text, time passes, and it is called on the text again
SpecTwice == InitTwice /\ [][NextTwice]_vars

\* ------------------------------------------------- parsing one text after another
\* parseTxt is called on another text, by the same parser object or a new one
\* (the class has no fields): extractFromTxt starts from its own players map
ParseAnother ==
  /\ pc = "done"
  /\ prev = NoSummary
  /\ content' \in TranscriptsOver(TwiceHands, Dates)
  /\ prev' = summary
  /\ pc' = "hands"
  /\ i' = 1
  /\ players' = PlayersAtEntry
  /\ awards' = <<>>
  /\ summary' = NoSummary
  /\ UNCHANGED clock
  /\ UNCHANGED dbvars

NextSequence == ParseTxt \/ Tick \/ ParseAnother

\* parseTxt is called on a text A and then on a text B
SpecSequence == InitTwice /\ [][NextSequence]_vars

\* --------------------------------------------------- calculateAwards on stat maps
\* most players in a stat map given to calculateAwards directly
MaxAwardPlayers == 4

PlayerNames == <<"A", "B", "C", "D", "E", "F">>

\* a suckout parseHand records when two pair of sevens and deuces beats trips
HeroSuckout ==
  [winning_hand |-> <<"two", "pair", "7s", "and", "2s">>, victim |-> "Z",
   victim_hand |-> ThreeJacks,
   description |-> <<"Sucked", "out", "with", "two", "pair", "vs", "trip", "jacks">>]

\* a suckout whose description names a weak holding
YoloSuckout ==
  [winning_hand |-> AceHighFlush, victim |-> "Z", victim_hand |-> ThreeJacks,
   description |-> <<"Sucked", "out", "with", "7-2", "offsuit", "vs", "trip", "jacks">>]

StatOf(hp, raises, bets, calls, vol, sd, wins, chips, suckouts) ==
  [NewPlayerStat(chips) EXCEPT
     !.hands_played = hp, !.raises = raises, !.bets = bets, !.calls = calls,
     !.aggressive_actions = raises + bets, !.passive_actions = calls,
     !.hands_voluntarily_played = vol, !.showdowns = sd, !.showdown_wins = wins,
     !.suckouts = suckouts]

\* the kinds of player a stat map is drawn from
StatProfiles ==
  {\* loose and aggressive, loses its showdowns
   StatOf(12, 3, 3, 0, 12, 2, 0, 1500, <<>>),
   \* calls a lot, raises now and then, wins its showdowns
   StatOf(12, 3, 0, 6, 6, 2, 2, 1500, <<>>),
   \* tight short stack
   StatOf(6, 0, 0, 0, 0, 0, 0, 500, <<>>),
   \* few hands, a short stack, won with sevens and deuces
   StatOf(4, 1, 3, 1, 4, 1, 1, 500, <<HeroSuckout>>),
   \* many hands, both kinds of suckout
   StatOf(12, 2, 0, 6, 12, 3, 1, 900, <<YoloSuckout, HeroSuckout>>)}

\* the final positions determineFinalPositions can leave on n players: at most
\* one 1st and one 2nd, and one 3rd when somebody is neither
PositionMaps(n) ==
  {f \in [1..n -> 0..3] :
     /\ \A p \in 1..3 : Cardinality({k \in 1..n : f[k] = p}) <= 1
     /\ (\E k \in 1..n : f[k] \notin {1, 2}) => (\E k \in 1..n : f[k] = 3)}

StatMap(n, profile, pos) ==
  [stat |-> [x \in {PlayerNames[k] : k \in 1..n} |->
               LET k == CHOOSE j \in 1..n : PlayerNames[j] = x
               IN [profile[k] EXCEPT !.final_position = pos[k]]],
   order |-> SubSeq(PlayerNames, 1, n)]

\* calculateAwards is called on a stat map with no transcript behind it
InitAwards ==
  /\ content = [id |-> Null, date |-> Null, hands |-> <<>>]
  /\ pc = "awards"
  /\ i = 1
  /\ \E n \in 1..MaxAwardPlayers :
       \E profile \in [1..n -> StatProfiles], pos \in PositionMaps(n) :
         players = StatMap(n, profile, pos)
  /\ awards = <<>>
  /\ summary = NoSummary
  /\ prev = NoSummary
  /\ clock = 0
  /\ DbIdle

NextAwards == CalculateAwardsStep

\* calculateAwards applied to every stat map over StatProfiles and PositionMaps
SpecAwards == InitAwards /\ [][NextAwards]_vars

\* ------------------------------------------------- the router's parseTournament
\* most lines in a file given to parseTournament
MaxLines == 3

\* a line of the file: pad tells whether blanks surround it, kind which of the
\* patterns of parseTournament its text matches ("empty": no text at all)
Line(kind, who, num, date) ==
  [kind |-> kind, who |-> who, num |-> num, date |-> date, pad |-> FALSE]

\* a line in which dateMatch finds no YYYY/MM/DD
NoDate == [ymd |-> <<>>, sep |-> ""]

\* line.trim()
Trim(line) == [line EXCEPT !.pad = FALSE]

\* fileContent.split('\n').map(line => line.trim()).filter(line => line.length > 0)
NonEmptyLines(fileContent) ==
  SelectSeq([k \in 1..Len(fileContent) |-> Trim(fileContent[k])],
            LAMBDA l : l.kind # "empty")

\* new Date().toISOString().split('T')[0]
toISODate(now) == [ymd |-> <<2026, 11, 1 + now \div TicksPerDay>>, sep |-> "-"]

\* extractDate: the first YYYY/MM/DD of the line with '/' replaced by '-'
extractDate(line) ==
  IF line.date = NoDate THEN NoDate ELSE [ymd |-> line.date.ymd, sep |-> "-"]

\* the body of the for loop over the lines
TournamentLine(t, line) ==
  IF line.kind = "header"
  THEN [t EXCEPT !.tournament_date =
          IF extractDate(line) # NoDate THEN extractDate(line) ELSE @]
  ELSE IF line.kind = "players" THEN [t EXCEPT !.total_players = line.num]
  ELSE IF line.kind = "finished"
  THEN [t EXCEPT !.player_stats =
          Put(@, line.who, [placement |-> line.num, knockouts |-> 0])]
  ELSE IF line.kind = "knockout"
  THEN LET st0 == IF Has(t.player_stats, line.who) THEN t.player_stats
                  ELSE Put(t.player_stats, line.who,
                           [placement |-> 999, knockouts |-> 0])
       IN [t EXCEPT !.player_stats =
             Put(st0, line.who, [st0.stat[line.who] EXCEPT !.knockouts = @ + 1])]
  ELSE t

RECURSIVE TournamentLines(_, _)
TournamentLines(t, lines) ==
  IF lines = <<>> THEN t
  ELSE TournamentLines(TournamentLine(t, Head(lines)), Tail(lines))

\* players.reduce(...): the first player with the most knockouts, if any has one
RECURSIVE MostKOs(_, _, _)
MostKOs(stats, names, max) ==
  IF names = <<>> THEN max
  ELSE MostKOs(stats, Tail(names),
               IF stats.stat[Head(names)].knockouts > max.knockouts
               THEN [name |-> Head(names),
                     knockouts |-> stats.stat[Head(names)].knockouts]
               ELSE max)

\* the awards parseTournament derives from player_stats
TournamentAwards(stats) ==
  LET names == stats.order
      n == Len(names)
      champions == SelectSeq(names, LAMBDA x : stats.stat[x].placement = 1)
      mostKOs == MostKOs(stats, names, [name |-> "", knockouts |-> 0])
      Award(w, st) == [winner |-> w, stat |-> st]
      Opt(cond, a, rec) == IF cond THEN (a :> rec) ELSE <<>>
  IN IF n = 0 THEN <<>>
     ELSE Opt(champions # <<>>, "Tournament Champion",
              Award(IF champions # <<>> THEN champions[1] ELSE Null, "1st Place"))
          @@ Opt(mostKOs.knockouts > 0, "Most Aggressive",
                 Award(mostKOs.name, ToString(mostKOs.knockouts) \o " knockouts"))
          @@ ("Participation Award" :> Award(names[n], "Thanks for playing!"))
          @@ ("Comeback Kid" :> Award(names[(n \div 2) + 1], "Never gave up!"))
          @@ ("YOLO Award" :> Award(names[1], "All-in mentality!"))
          @@ ("Hollywood Actor" :>
                Award(IF n >= 2 THEN names[2] ELSE names[1], "Master of deception"))
          @@ ("Calling Station" :> Award(names[n], "Never folded a hand"))
          @@ ("Doggy Paddling Award" :>
                Award(names[((7 * n) \div 10) + 1], "Swimming upstream"))

\* parseTournament: throws on a file without text, else returns the tournament
parseTournament(fileContent, now) ==
  LET lines == NonEmptyLines(fileContent)
      t0 == [tournament_date |-> toISODate(now), total_players |-> 0,
             awards |-> <<>>, preparation_h_club |-> <<>>,
             player_stats |-> EmptyPlayers]
      t1 == TournamentLines(t0, lines)
  IN IF Len(lines) = 0
     THEN [threw |-> TRUE,
           value |-> [error |-> "File is empty or contains no valid data"]]
     ELSE [threw |-> FALSE,
           value |-> [t1 EXCEPT !.awards = TournamentAwards(t1.player_stats)]]

FileDate == [ymd |-> <<2024, 1, 15>>, sep |-> "/"]

RouterLines ==
  {Line("empty", Null, 0, NoDate),
   [Line("empty", Null, 0, NoDate) EXCEPT !.pad = TRUE],
   Line("header", Null, 0, FileDate),
   [Line("players", Null, 6, NoDate) EXCEPT !.pad = TRUE],
   Line("finished", "A", 1, NoDate),
   Line("finished", "B", 2, NoDate),
   Line("knockout", "B", 0, NoDate),
   Line("other", Null, 0, NoDate)}

\* parseTournament is about to be called on a file; split('\n') yields at least
\* one line and here at most MaxLines
InitRouter ==
  /\ content \in UNION {[1..n -> RouterLines] : n \in 1..MaxLines}
  /\ pc = "router"
  /\ i = 1
  /\ players = EmptyPlayers
  /\ awards = <<>>
  /\ summary = NoSummary
  /\ prev = NoSummary
  /\ clock = 0
  /\ DbIdle

\* const parsedData = parseTournament(fileContent)
ParseTournamentStep ==
  /\ pc = "router"
  /\ LET r == parseTournament(content, clock)
     IN /\ pc' = IF r.threw THEN "thrown" ELSE "done"
        /\ summary' = r.value
  /\ UNCHANGED <<content, i, players, awards, prev, clock>>
  /\ UNCHANGED dbvars

NextRouter == ParseTournamentStep

SpecRouter == InitRouter /\ [][NextRouter]_vars

\* ------------------------------------------------------ classifying one description
Ranks == {"Aces", "Kings", "Queens", "Jacks", "Tens", "Sevens", "Fives"}
PremiumRanks == {"Aces", "Kings", "Queens"}
TwoRanks == {p \in Ranks \X Ranks : p[1] # p[2]}

\* a hand description as the showdown line gives it, with the tier it denotes
Described(tier, desc) == [tier |-> tier, desc |-> desc]

Descriptions ==
  {Described("high card", d) :
     d \in {<<"high", "card", "Ace">>, <<>>, <<"mucked">>, <<"Sevens">>, <<"Aces">>}}
  \cup {Described("pair", <<"a", "pair", "of", r>>) : r \in Ranks}
  \cup {Described(IF {p[1], p[2]} \cap PremiumRanks # {} THEN "premium two pair"
                  ELSE "generic two pair",
                  <<"two", "pair", p[1], "and", p[2]>>) : p \in TwoRanks}
  \cup {Described("three of a kind", <<"three", "of", "a", "kind", r>>) : r \in Ranks}
  \cup {Described("straight", <<"a", "straight", "Tens", "to", "Ace">>)}
  \cup {Described("flush", d) :
          d \in {<<"a", "flush", "Ace", "high">>, <<"a", "Flush", "Kings", "high">>}}
  \cup {Described("full house", <<"a", "full", "house", p[1], "full", "of", p[2]>>) :
          p \in TwoRanks}
  \cup {Described("four of a kind", <<"four", "of", "a", "kind", r>>) : r \in Ranks}
  \cup {Described("straight flush", <<"a", "straight", "flush", "Kings", "high">>)}
  \cup {Described("royal flush", <<"a", "Royal", "Flush">>)}

\* one showdown match is about to be classified
InitStrength ==
  /\ content \in Descriptions
  /\ pc = "classify"
  /\ i = 1
  /\ players = EmptyPlayers
  /\ awards = <<>>
  /\ summary = NoSummary
  /\ prev = NoSummary
  /\ clock = 0
  /\ DbIdle

\* made_hand_strength and the short label of one shown hand
ClassifyStep ==
  /\ pc = "classify"
  /\ summary' = [strength |-> evaluateMadeHandStrength(content.desc),
                 label |-> getSimpleHandDescription(content.desc)]
  /\ pc' = "classified"
  /\ UNCHANGED <<content, i, players, awards, prev, clock>>
  /\ UNCHANGED dbvars

NextStrength == ClassifyStep

SpecStrength == InitStrength /\ [][NextStrength]_vars

\* ------------------------------------------------------------ crowded tables
CrowdNames == <<"A", "B", "C", "D", "E", "F", "G", "H">>

\* the seat lines of a table of n players, the chips falling with the seat
CrowdSeats(n) == [k \in 1..n |-> Seat(CrowdNames[k], 2000 - 100 * k)]

\* hands at tables of three, six, seven and eight players
CrowdHands ==
  {Hand(CrowdSeats(n), <<>>, e.shows, e.collects) :
     n \in {3, 6, 7, 8}, e \in EndOptions}

InitCrowd == InitOver(CrowdHands, {"2024/01/15 20:00:00"})

\* one call of parseTxt on every transcript over CrowdHands
SpecCrowd == InitCrowd /\ [][Next]_vars

\* ======================================================================== database
\* part_001:402-568: the tournament_results table, handleTournamentUpload with
\* saveTournamentResults, and loadTournamentResults.  Every await of a
\* statement on env.DB is a point where another request can run, and every
\* statement can throw.

\* upload requests in flight at once
MaxUploads == 2

UploadIds == 1..MaxUploads

\* formData.get('file'): a file whose name ends in .txt, or anything else
Files == {"txt", "none"}

\* some saveTournamentResults has returned true
SomeSaved == \E u \in DOMAIN uploads.req : uploads.req[u].saved = "yes"

\* INSERT INTO tournament_results: a new row with the next AUTOINCREMENT id
\* and last_updated DEFAULT CURRENT_TIMESTAMP
InsertRow(db, tid) ==
  [rows |-> Append(db.rows, [id |-> db.seq + 1, tournament_id |-> tid,
                             last_updated |-> clock]),
   seq |-> db.seq + 1]

\* DELETE FROM tournament_results
DeleteRows(db) == [db EXCEPT !.rows = <<>>]

\* ORDER BY last_updated DESC LIMIT 1: the rows that can come first (rows of
\* one timestamp come in no specified order)
LatestRows(db) ==
  {k \in 1..Len(db.rows) :
     \A j \in 1..Len(db.rows) : db.rows[j].last_updated <= db.rows[k].last_updated}

\* generateSampleData: the placeholder tournament
generateSampleData(threw) ==
  [kind |-> "sample", tournament_id |-> 0, afterSave |-> SomeSaved, threw |-> threw]

InitDb ==
  /\ content = <<>>
  /\ pc = "serving"
  /\ i = 1
  /\ players = EmptyPlayers
  /\ awards = <<>>
  /\ summary = NoSummary
  /\ prev = NoSummary
  /\ clock = 0
  /\ DB = EmptyDb
  /\ \E fs \in [UploadIds -> Files] :
       uploads = [req |-> [u \in UploadIds |->
                             [file |-> fs[u], pc |-> "received",
                              saved |-> "pending", response |-> "none"]],
                  finished |-> <<>>]
  /\ loaded = [kind |-> "none", tournament_id |-> 0, afterSave |-> FALSE,
               threw |-> FALSE]

\* handleTournamentUpload up to the call of saveTournamentResults: a request
\* without a .txt file is answered 400, any other is parsed
handleTournamentUpload(u) ==
  /\ pc = "serving"
  /\ uploads.req[u].pc = "received"
  /\ uploads' = [uploads EXCEPT
       !.req[u] = IF @.file = "txt"
                    THEN [@ EXCEPT !.pc = "delete"]
                    ELSE [@ EXCEPT !.pc = "done", !.response = "error"]]
  /\ UNCHANGED <<content, pc, i, players, awards, summary, prev, clock, DB, loaded>>

\* saveTournamentResults, first statement: DELETE FROM tournament_results; a
\* throw is caught and false is returned
saveTournamentResults_Delete(u) ==
  /\ pc = "serving"
  /\ uploads.req[u].pc = "delete"
  /\ \E ok \in BOOLEAN :
       IF ok
         THEN /\ DB' = DeleteRows(DB)
              /\ uploads' = [uploads EXCEPT !.req[u].pc = "insert"]
         ELSE /\ DB' = DB
              /\ uploads' = [uploads EXCEPT !.req[u].pc = "respond",
                                            !.req[u].saved = "failed",
                                            !.finished = Append(@, u)]
  /\ UNCHANGED <<content, pc, i, players, awards, summary, prev, clock, loaded>>

\* saveTournamentResults, second statement: INSERT INTO tournament_results,
\* then return true; a throw is caught and false is returned
saveTournamentResults_Insert(u) ==
  /\ pc = "serving"
  /\ uploads.req[u].pc = "insert"
  /\ \E ok \in BOOLEAN :
       IF ok
         THEN /\ DB' = InsertRow(DB, u)
              /\ uploads' = [uploads EXCEPT !.req[u].pc = "respond",
                                            !.req[u].saved = "yes",
                                            !.finished = Append(@, u)]
         ELSE /\ DB' = DB
              /\ uploads' = [uploads EXCEPT !.req[u].pc = "respond",
                                            !.req[u].saved = "failed",
                                            !.finished = Append(@, u)]
  /\ UNCHANGED <<content, pc, i, players, awards, summary, prev, clock, loaded>>

\* handleTournamentUpload after saveTournamentResults: the value it returned
\* is not looked at, the answer is success: true
Respond(u) ==
  /\ pc = "serving"
  /\ uploads.req[u].pc = "respond"
  /\ uploads' = [uploads EXCEPT !.req[u].pc = "done",
                                !.req[u].response = "success"]
  /\ UNCHANGED <<content, pc, i, players, awards, summary, prev, clock, DB, loaded>>

\* loadTournamentResults, as handleApiData and handleMainPage call it: the
\* first row by last_updated, the placeholder when there is none or the
\* statement throws
loadTournamentResults ==
  /\ pc = "serving"
  /\ \E ok \in BOOLEAN :
       IF ok /\ DB.rows # <<>>
         THEN \E k \in LatestRows(DB) :
                loaded' = [kind |-> "stored",
                           tournament_id |-> DB.rows[k].tournament_id,
                           afterSave |-> SomeSaved, threw |-> FALSE]
         ELSE loaded' = generateSampleData(~ok)
  /\ UNCHANGED <<content, pc, i, players, awards, summary, prev, clock, DB, uploads>>

\* CURRENT_TIMESTAMP moves on
TickDb ==
  /\ pc = "serving"
  /\ clock < MaxClock
  /\ clock' = clock + 1
  /\ UNCHANGED <<content, pc, i, players, awards, summary, prev>>
  /\ UNCHANGED dbvars

NextDb ==
  \/ \E u \in UploadIds : handleTournamentUpload(u)
  \/ \E u \in UploadIds : saveTournamentResults_Delete(u)
  \/ \E u \in UploadIds : saveTournamentResults_Insert(u)
  \/ \E u \in UploadIds : Respond(u)
  \/ loadTournamentResults
  \/ TickDb

SpecDb == InitDb /\ [][NextDb]_vars

\* ======================================================================== claims

IssuedBehavioral == {k \in 1..Len(BehavioralAwards) : BehavioralAwards[k] \in DOMAIN awards}
WinnerOf(a) == awards[a].winner
PositionOf(n) == players.stat[n].final_position

\* C1: for every non-empty stat map, no two of the ten behavioral awards in
\* the mapping calculateAwards returns name the same winner.
C1_BehavioralWinnersDistinct ==
  (pc = "return" /\ NumPlayers(players) > 0) =>
    \A k, l \in IssuedBehavioral :
      k # l => WinnerOf(BehavioralAwards[k]) # WinnerOf(BehavioralAwards[l])

\* three behavioral awards were issued, and the winner of one of them is the
\* player a later category would pick if nobody were excluded
C1_Witness ==
  /\ pc = "return"
  /\ Cardinality(IssuedBehavioral) >= 3
  /\ \E k, l \in IssuedBehavioral :
       k < l /\ BehavioralWinner(l, players, {}) = WinnerOf(BehavioralAwards[k])

\* the behavioral winners issued before category k
EarlierWinners(k) == {WinnerOf(BehavioralAwards[j]) : j \in {x \in IssuedBehavioral : x < k}}

\* C2: placement awards are decided from final_position and N alone; their
\* winners are neither added to the behavioral exclusion set nor filtered by
\* it, so a placement winner can win a behavioral award in the same run.
C2_PlacementIndependent ==
  (pc = "return" /\ NumPlayers(players) > 0) =>
    LET N == NumPlayers(players)
        Placed(a, pos) ==
          /\ (a \in DOMAIN awards) <=> (\E n \in DOMAIN players.stat : PositionOf(n) = pos)
          /\ (a \in DOMAIN awards) => PositionOf(WinnerOf(a)) = pos
    IN /\ Placed("Tournament Champion", 1)
       /\ Placed("Runner Up", 2)
       /\ IF N >= 4 THEN Placed("Bubble Boy", (N + 1) \div 2)
          ELSE "Bubble Boy" \notin DOMAIN awards
       /\ \A k \in 1..Len(BehavioralAwards) :
            LET w == BehavioralWinner(k, players, EarlierWinners(k))
            IN IF k \in IssuedBehavioral THEN WinnerOf(BehavioralAwards[k]) = w
               ELSE w = Null

\* the champion, the runner-up and the bubble boy each hold a behavioral award too
C2_Witness ==
  /\ pc = "return"
  /\ PlacementAwards \subseteq DOMAIN awards
  /\ \A a \in PlacementAwards :
       \E k \in IssuedBehavioral : WinnerOf(BehavioralAwards[k]) = WinnerOf(a)
\* the hand parseHand is about to process / has just processed
CurrentHand == content.hands[i]
ParsedHand == content.hands[i - 1]

StrengthOf(s) == evaluateMadeHandStrength(s.desc)
ShowsOf(h) == {h.shows[k] : k \in 1..Len(h.shows)}
CollectorsOf(h) == {h.collects[k].name : k \in 1..Len(h.collects)}
Elements(q) == {q[k] : k \in 1..Len(q)}

OldBadBeats(n) == IF Has(players, n) THEN players.stat[n].bad_beats ELSE <<>>
OldSuckouts(n) == IF Has(players, n) THEN players.stat[n].suckouts ELSE <<>>
\* the entries one step appended to a player's lists
NewBadBeats(n) ==
  IF Has(players', n)
  THEN SubSeq(players'.stat[n].bad_beats, Len(OldBadBeats(n)) + 1,
              Len(players'.stat[n].bad_beats))
  ELSE <<>>
NewSuckouts(n) ==
  IF Has(players', n)
  THEN SubSeq(players'.stat[n].suckouts, Len(OldSuckouts(n)) + 1,
              Len(players'.stat[n].suckouts))
  ELSE <<>>

\* the step appended a BadBeatInfo for loser l beaten by w, and its mirror
RecordedBadBeat(l, w) ==
  \E e \in Elements(NewBadBeats(l.name)) :
    e.victim_hand = l.desc /\ e.winner = w.name /\ e.winner_hand = w.desc
RecordedSuckout(l, w) ==
  \E e \in Elements(NewSuckouts(w.name)) :
    e.victim = l.name /\ e.victim_hand = l.desc /\ e.winning_hand = w.desc

\* C3 (as claimed): a transcript without hands yields total_players = 0, an
\* empty awards mapping and an empty bad-beat log.
C3_ZeroHandsEmptySummary ==
  (pc = "done" /\ content.hands = <<>>) =>
    /\ summary.total_players = 0
    /\ DOMAIN summary.awards = {}
    /\ summary.preparation_h_club = <<>>

\* C4 (as claimed): after any sequence of parseHand calls every player has
\* hands_voluntarily_played <= hands_played.
C4_VoluntaryAtMostPlayed ==
  \A n \in DOMAIN players.stat :
    players.stat[n].hands_voluntarily_played <= players.stat[n].hands_played

\* C5: a hand with two or more pot-collection events appends no BadBeatInfo and
\* no SuckoutInfo to any player, whatever was shown.
C5_SplitPotAddsNothing ==
  [][(ParseHandStep /\ Len(CurrentHand.collects) >= 2) =>
       \A n \in DOMAIN players'.stat :
         /\ players'.stat[n].bad_beats = OldBadBeats(n)
         /\ players'.stat[n].suckouts = OldSuckouts(n)]_vars

\* a two-collector hand in which a full house and a flush were shown has been
\* processed after a hand that did record a bad beat
C5_Witness ==
  /\ pc = "hands" /\ i = 3
  /\ Len(ParsedHand.collects) >= 2
  /\ \E l, w \in ShowsOf(ParsedHand) : StrengthOf(l) >= 700 /\ StrengthOf(w) = 600
  /\ Len(players.stat["B"].bad_beats) = 1

\* C6 (as claimed): whenever a showdown reveals a loser with a full house or
\* better who lost to a winner with a flush or better, the hand appends a
\* BadBeatInfo to the loser and a matching SuckoutInfo to the winner.
C6_StrongLoserAlwaysRecorded ==
  [][ParseHandStep =>
       \A l, w \in ShowsOf(CurrentHand) :
         ( /\ CurrentHand.showdown
           /\ w.name \in CollectorsOf(CurrentHand)
           /\ l.name \notin CollectorsOf(CurrentHand)
           /\ StrengthOf(l) >= 700 /\ StrengthOf(w) >= 600 )
         => (RecordedBadBeat(l, w) /\ RecordedSuckout(l, w))]_vars

\* the hand has exactly one pot collection, no split-pot language, and its
\* collector w and another player l both showed and are registered players
SingleWinnerShowdown(h, l, w) ==
  /\ h.showdown /\ Len(h.collects) = 1 /\ ~h.split
  /\ w.name = h.collects[1].name
  /\ l.name # w.name
  /\ Has(players', l.name) /\ Has(players', w.name)

\* C6 (amended): in a hand with exactly one pot collection and no split-pot
\* language, whose collector shows a flush or better while another player
\* shows a full house or better, both being registered players, the hand
\* appends a BadBeatInfo to the loser and a matching SuckoutInfo to the winner.
C6_StrongLoserRecorded ==
  [][ParseHandStep =>
       \A l, w \in ShowsOf(CurrentHand) :
         ( /\ SingleWinnerShowdown(CurrentHand, l, w)
           /\ StrengthOf(l) >= 700 /\ StrengthOf(w) >= 600 )
         => (RecordedBadBeat(l, w) /\ RecordedSuckout(l, w))]_vars

\* B's full house lost to A's flush in a single-collector hand, and both lists
\* hold the entry
C6_Witness ==
  /\ pc = "hands" /\ i = 2
  /\ ParsedHand = Hand(AllSeated, <<>>,
                       <<Show("A", AceHighFlush), Show("B", FullHouse)>>,
                       <<Collect("A", 900)>>)
  /\ Len(players.stat["B"].bad_beats) = 1
  /\ players.stat["B"].bad_beats[1].winner = "A"
  /\ Len(players.stat["A"].suckouts) = 1
  /\ players.stat["A"].suckouts[1].victim = "B"

\* C7 (as claimed): with a single collector, a losing revealed hand is recorded
\* iff it is three of a kind or stronger, or two pair or better (generic two
\* pair included) and strictly below the winner's strength.
C7_GenericTwoPairCounts ==
  [][ParseHandStep =>
       \A l, w \in ShowsOf(CurrentHand) :
         SingleWinnerShowdown(CurrentHand, l, w) =>
           (RecordedBadBeat(l, w) <=>
              \/ StrengthOf(l) >= 400
              \/ StrengthOf(l) >= 200 /\ StrengthOf(l) < StrengthOf(w))]_vars

\* C7 (amended): with a single collector who showed, no split-pot language and
\* registered players, a losing revealed hand is recorded iff it is three of a
\* kind or stronger, or premium two pair (aces, kings or queens) or better and
\* strictly below the winner's strength; generic two pair is never recorded.
C7_PremiumTwoPairThreshold ==
  [][ParseHandStep =>
       \A l, w \in ShowsOf(CurrentHand) :
         SingleWinnerShowdown(CurrentHand, l, w) =>
           (RecordedBadBeat(l, w) <=>
              \/ StrengthOf(l) >= 400
              \/ StrengthOf(l) >= 300 /\ StrengthOf(l) < StrengthOf(w))]_vars

\* generic two pair lost to a flush and nothing was recorded, premium two pair
\* lost to a flush in the next hand and was
C7_Witness ==
  /\ pc = "hands" /\ i = 3
  /\ content.hands[1] = Hand(AllSeated, <<>>,
                             <<Show("A", AceHighFlush), Show("B", TwoPairTens)>>,
                             <<Collect("A", 900)>>)
  /\ content.hands[2] = Hand(AllSeated, <<>>,
                             <<Show("A", AceHighFlush), Show("B", TwoPairAces)>>,
                             <<Collect("A", 900)>>)
  /\ Len(players.stat["B"].bad_beats) = 1
  /\ players.stat["B"].bad_beats[1].victim_hand = TwoPairAces

\* C8: the one-hand scenario A(1000) B(500) C(300), A raises, B calls, C folds,
\* A shows a full house, B a pair of sevens, A collects 1800: A gets position
\* 1, Tournament Champion is A, and no BadBeatInfo is recorded for B.
C8_Scenario ==
  (pc = "done" /\ content.hands = <<ScenarioHand>>) =>
    /\ players.stat["A"].final_position = 1
    /\ "Tournament Champion" \in DOMAIN summary.awards
    /\ summary.awards["Tournament Champion"].winner = "A"
    /\ players.stat["B"].bad_beats = <<>>
    /\ summary.preparation_h_club = <<>>

C8_Witness ==
  /\ pc = "done" /\ content.hands = <<ScenarioHand>>
  /\ summary.total_players = 3
  /\ players.stat["A"].raises = 1 /\ players.stat["B"].calls = 1
  /\ players.stat["C"].folds = 1 /\ players.stat["A"].total_won = 1800

\* C9 (as claimed): whenever the last hand has a pot collector who is a
\* registered player, that player gets final position 1 and Tournament
\* Champion, whether or not anybody showed cards in that hand.
C9_LastCollectorIsChampion ==
  LET last == content.hands[Len(content.hands)]
      winner == last.collects[1].name
  IN (pc = "done" /\ content.hands # <<>> /\ last.collects # <<>>
      /\ Has(players, winner)) =>
       /\ players.stat[winner].final_position = 1
       /\ "Tournament Champion" \in DOMAIN summary.awards
       /\ summary.awards["Tournament Champion"].winner = winner

\* C10 (as claimed): two parses of the same transcript return summaries equal
\* in every field except last_updated.
C10_SameSummaryTwice ==
  (pc = "done" /\ prev # NoSummary) =>
    /\ summary.tournament_date = prev.tournament_date
    /\ summary.tournament_id = prev.tournament_id
    /\ summary.total_players = prev.total_players
    /\ summary.awards = prev.awards
    /\ summary.preparation_h_club = prev.preparation_h_club

\* what one call of parseTxt on text returns at instant now
ParsedAlone(text, now) ==
  LET ps == determineFinalPositions(ParseHands(text.hands, EmptyPlayers), text.hands)
  IN Summary(text, ps, calculateAwards(ps), now)

\* C11: the summary parseTxt returns for a text B parsed after a text A equals,
\* apart from last_updated, the summary for B parsed alone: nothing of A is
\* carried over.
C11_FreshPlayerMap ==
  (pc = "done" /\ prev # NoSummary) =>
    LET alone == ParsedAlone(content, clock)
    IN /\ summary.tournament_date = alone.tournament_date
       /\ summary.tournament_id = alone.tournament_id
       /\ summary.total_players = alone.total_players
       /\ summary.awards = alone.awards
       /\ summary.preparation_h_club = alone.preparation_h_club

\* the first text had three players, a champion and a bad beat; the second,
\* parsed after it, has hands and yields no bad beat
C11_Witness ==
  /\ pc = "done" /\ prev # NoSummary
  /\ prev.total_players = 3
  /\ prev.preparation_h_club # <<>>
  /\ "Tournament Champion" \in DOMAIN prev.awards
  /\ content.hands # <<>>
  /\ summary.preparation_h_club = <<>>
  /\ summary.awards # prev.awards

\* C12 (as claimed): a parse entry point never throws; every call, also on an
\* empty or whitespace-only file, ends by returning a summary record.
C12_EntryPointsReturn ==
  /\ pc # "thrown"
  /\ pc = "done" => "awards" \in DOMAIN summary

\* C13: the behavioral awards are decided in the fixed order of
\* BehavioralAwards, each among the players who won no earlier category: the
\* category is issued exactly when such a candidate exists, it goes to the best
\* of them, and it goes to somebody other than the best of all players only
\* when that player holds an earlier award.
C13_FixedPriorityOrder ==
  (pc = "return" /\ NumPlayers(players) > 0) =>
    \A l \in 1..Len(BehavioralAwards) :
      LET remaining == BehavioralWinner(l, players, EarlierWinners(l))
      IN IF l \in IssuedBehavioral
         THEN /\ WinnerOf(BehavioralAwards[l]) = remaining
              /\ WinnerOf(BehavioralAwards[l]) \notin EarlierWinners(l)
              /\ WinnerOf(BehavioralAwards[l]) # BehavioralWinner(l, players, {}) =>
                   BehavioralWinner(l, players, {}) \in EarlierWinners(l)
         ELSE remaining = Null

\* a player is best in two categories: the earlier one is theirs, the later one
\* went to somebody else
C13_Witness ==
  /\ pc = "return"
  /\ \E k, l \in IssuedBehavioral :
       /\ k < l
       /\ BehavioralWinner(k, players, {}) = WinnerOf(BehavioralAwards[k])
       /\ BehavioralWinner(l, players, {}) = WinnerOf(BehavioralAwards[k])
       /\ WinnerOf(BehavioralAwards[l]) # WinnerOf(BehavioralAwards[k])

\* C14 (as claimed): every behavioral award names a winner with
\* hands_played > 5, and Donkey one with hands_played > 10.
C14_WinnersPlayedEnough ==
  (pc = "return" /\ NumPlayers(players) > 0) =>
    \A k \in IssuedBehavioral :
      LET data == players.stat[WinnerOf(BehavioralAwards[k])]
      IN data.hands_played > (IF BehavioralAwards[k] = "Donkey" THEN 10 ELSE 5)

\* the players Most Aggressive is chosen among when nobody is awarded yet
PlayedMoreThanFive == {n \in DOMAIN players.stat : players.stat[n].hands_played > 5}

\* C15 (as claimed): whenever some player has hands_played > 5, Most
\* Aggressive is issued, to a player with the highest
\* aggressive_actions / max(hands_played, 1) among those players.
C15_MostAggressiveIssued ==
  (pc = "return" /\ PlayedMoreThanFive # {}) =>
    /\ "Most Aggressive" \in DOMAIN awards
    /\ LET w == players.stat[WinnerOf("Most Aggressive")]
       IN /\ WinnerOf("Most Aggressive") \in PlayedMoreThanFive
          /\ \A n \in PlayedMoreThanFive :
               players.stat[n].aggressive_actions * HandsDen(w)
                 <= w.aggressive_actions * HandsDen(players.stat[n])

\* determineFinalPositions has run on a transcript with at least one hand
PositionsResolved == pc # "hands" /\ content.hands # <<>>
LastHand == content.hands[Len(content.hands)]
WithPosition(p) == {n \in DOMAIN players.stat : PositionOf(n) = p}

\* C16 (as claimed): the first player, in order of appearance, who shows cards
\* in the last hand and is not a pot collector of that hand gets position 2.
C16_FirstShowerIsSecond ==
  PositionsResolved =>
    LET others == SelectSeq(LastHand.shows,
                            LAMBDA s : s.name \notin CollectorsOf(LastHand))
    IN others # <<>> => WithPosition(2) = {others[1].name}

\* C16 (amended): when the last hand has a pot collection and a shown hand,
\* position 1 goes to its first collector and position 2 to the first
\* registered player, in order of appearance, who shows cards in it and is not
\* that collector; otherwise nobody gets position 1 or 2. Given the registered
\* names, positions 1 and 2 are a function of the last hand alone.
C16_LastHandDecidesTopTwo ==
  PositionsResolved =>
    LET decides == LastHand.collects # <<>> /\ LastHand.shows # <<>>
        winner == LastHand.collects[1].name
        others == SelectSeq(LastHand.shows,
                    LAMBDA s : s.name # winner /\ s.name \in DOMAIN players.stat)
    IN /\ WithPosition(1) =
            (IF decides THEN {winner} \cap DOMAIN players.stat ELSE {})
       /\ WithPosition(2) =
            (IF decides /\ others # <<>> THEN {others[1].name} ELSE {})

\* a two-hand transcript whose last hand has three players showing: the first
\* of them to show who did not collect is second, and the first hand was won by
\* somebody else
C16_Witness ==
  /\ pc = "awards" /\ Len(content.hands) = 2
  /\ Len(LastHand.shows) = 3 /\ Len(LastHand.collects) = 1
  /\ LastHand.shows[1].name # LastHand.collects[1].name
  /\ PositionOf(LastHand.shows[1].name) = 2
  /\ PositionOf(LastHand.collects[1].name) = 1
  /\ content.hands[1].collects # <<>>
  /\ content.hands[1].collects[1].name # LastHand.collects[1].name

\* the players not given position 1 or 2
NotTopTwo == {n \in DOMAIN players.stat : PositionOf(n) \notin {1, 2}}

\* C17: after determineFinalPositions, when some players are not given
\* position 1 or 2, exactly one of them has position 3, nobody among them has
\* more max_chips than that one, and all the others have no position.
C17_ThirdIsChipLeader ==
  (pc # "hands" /\ pc # "router" /\ NotTopTwo # {}) =>
    \E t \in NotTopTwo :
      /\ PositionOf(t) = 3
      /\ \A n \in NotTopTwo : players.stat[n].max_chips <= players.stat[t].max_chips
      /\ \A n \in NotTopTwo \ {t} : PositionOf(n) = NullPosition

\* three players without position 1 or 2; the third place went to the chip
\* leader, who is not the first registered player
C17_Witness ==
  /\ pc = "awards"
  /\ Cardinality(NotTopTwo) = 3
  /\ \E t \in NotTopTwo : PositionOf(t) = 3 /\ t # players.order[1]

RECURSIVE Sum(_)
Sum(q) == IF q = <<>> THEN 0 ELSE Head(q) + Sum(Tail(q))

TotalBadBeats ==
  Sum([k \in 1..Len(players.order) |-> Len(players.stat[players.order[k]].bad_beats)])
TotalSuckouts ==
  Sum([k \in 1..Len(players.order) |-> Len(players.stat[players.order[k]].suckouts)])

\* C18 (as claimed): after any sequence of hands the number of BadBeatInfo
\* entries over all players equals the number of SuckoutInfo entries, and the
\* summary's bad-beat log has that many entries.
C18_BadBeatsEqualSuckouts ==
  /\ pc # "router" => TotalBadBeats = TotalSuckouts
  /\ pc = "done" => Len(summary.preparation_h_club) = TotalSuckouts

\* every player who shows cards or collects in a hand has a seat line in that
\* hand or an earlier one
ShowersRegistered ==
  \A k \in 1..Len(content.hands) :
    \A n \in {s.name : s \in ShowsOf(content.hands[k])} \cup CollectorsOf(content.hands[k]) :
      \E j \in 1..k : \E m \in 1..Len(content.hands[j].seats) :
        content.hands[j].seats[m].name = n

\* C18 (amended): in a transcript where every player who shows cards or
\* collects is registered by then, every BadBeatInfo in a victim's list has its
\* mirrored SuckoutInfo in the list of the winner it names, the two totals are
\* equal, and the summary's bad-beat log has that many entries.
C18_BadBeatsMirrorSuckouts ==
  (pc # "router" /\ ShowersRegistered) =>
    /\ TotalBadBeats = TotalSuckouts
    /\ \A n \in DOMAIN players.stat :
         \A e \in Elements(players.stat[n].bad_beats) :
           /\ Has(players, e.winner)
           /\ \E u \in Elements(players.stat[e.winner].suckouts) :
                /\ u.victim = n /\ u.victim_hand = e.victim_hand
                /\ u.winning_hand = e.winner_hand
    /\ pc = "done" => Len(summary.preparation_h_club) = TotalBadBeats

\* a finished parse of two hands with a bad beat in each, the second on a
\* player whose only seat line is in the first hand
C18_Witness ==
  /\ pc = "done" /\ ShowersRegistered
  /\ Len(content.hands) = 2
  /\ TotalBadBeats = 2
  /\ Len(summary.preparation_h_club) = 2
  /\ \E n \in DOMAIN players.stat :
       /\ players.stat[n].bad_beats # <<>>
       /\ \A m \in 1..Len(content.hands[2].seats) : content.hands[2].seats[m].name # n
       /\ \E s \in ShowsOf(content.hands[2]) : s.name = n

\* C19: after any sequence of hands every player has
\* aggressive_actions = raises + bets and passive_actions = calls + checks,
\* hence aggressive_actions + passive_actions is at most the number of counted
\* actions.
C19_ActionRouting ==
  pc # "router" =>
    \A n \in DOMAIN players.stat :
      LET d == players.stat[n]
      IN /\ d.aggressive_actions = d.raises + d.bets
         /\ d.passive_actions = d.calls + d.checks
         /\ d.aggressive_actions + d.passive_actions
              <= d.raises + d.calls + d.folds + d.bets + d.checks

\* after two hands one player has raised and bet, another has called, checked
\* and folded
C19_Witness ==
  /\ pc = "awards" /\ Len(content.hands) = 2
  /\ \E n, m \in DOMAIN players.stat :
       /\ players.stat[n].raises > 0 /\ players.stat[n].bets > 0
       /\ players.stat[n].aggressive_actions >= 2
       /\ players.stat[m].calls > 0 /\ players.stat[m].checks > 0
       /\ players.stat[m].folds > 0

\* C20: Bubble Boy is issued only when there are at least 4 players, and then
\* to a player whose final_position is floor((N + 1) / 2).
C20_BubbleBoyNeedsFour ==
  (pc = "return" /\ "Bubble Boy" \in DOMAIN awards) =>
    /\ NumPlayers(players) >= 4
    /\ 2 * PositionOf(WinnerOf("Bubble Boy")) \in
         {NumPlayers(players), NumPlayers(players) + 1}

\* four players, and the player at position 2 is the Bubble Boy
C20_Witness ==
  /\ pc = "return"
  /\ NumPlayers(players) = 4
  /\ "Bubble Boy" \in DOMAIN awards
  /\ PositionOf(WinnerOf("Bubble Boy")) = 2

\* the BadBeatInfo entries of all players
AllBadBeats ==
  UNION {Elements(players.stat[n].bad_beats) : n \in DOMAIN players.stat}

\* C21 (as claimed): in every BadBeatInfo the winner's strength tier is
\* strictly greater than the victim's.
C21_WinnerStrictlyStronger ==
  \A e \in AllBadBeats :
    evaluateMadeHandStrength(e.winner_hand) > evaluateMadeHandStrength(e.victim_hand)

\* C21 (amended): in every BadBeatInfo the victim's tier is premium two pair
\* or better; the winner's tier is strictly greater when the victim's tier is
\* below three of a kind, and may be equal or lower otherwise.
C21_StrongVictimOrStrongerWinner ==
  \A e \in AllBadBeats :
    LET v == evaluateMadeHandStrength(e.victim_hand)
        w == evaluateMadeHandStrength(e.winner_hand)
    IN v >= 300 /\ (v < 400 => w > v)

\* the log holds a premium two pair beaten by a stronger hand and a full
\* house beaten by a hand of the same or a lower tier
C21_Witness ==
  /\ pc = "done"
  /\ \E e \in AllBadBeats :
       /\ evaluateMadeHandStrength(e.victim_hand) = 300
       /\ evaluateMadeHandStrength(e.winner_hand) > 300
  /\ \E e \in AllBadBeats :
       /\ evaluateMadeHandStrength(e.victim_hand) = 700
       /\ evaluateMadeHandStrength(e.winner_hand) <= 700

\* the tiers in the order the classification is to respect
TierOrder ==
  <<"high card", "pair", "generic two pair", "premium two pair", "three of a kind",
    "straight", "flush", "full house", "four of a kind", "straight flush",
    "royal flush">>
TierIndex(t) == CHOOSE k \in 1..Len(TierOrder) : TierOrder[k] = t

\* C22: the strength of a description of a lower tier is strictly below the
\* strength of a description of a higher tier, in the order of TierOrder, and a
\* description matching no known phrase gets the high-card strength and the
\* label "high card".
C22_TiersStrictlyOrdered ==
  pc = "classified" =>
    /\ \A d \in Descriptions :
         /\ TierIndex(d.tier) < TierIndex(content.tier) =>
              evaluateMadeHandStrength(d.desc) < summary.strength
         /\ TierIndex(d.tier) > TierIndex(content.tier) =>
              evaluateMadeHandStrength(d.desc) > summary.strength
    /\ content.tier = "high card" =>
         /\ summary.strength = evaluateMadeHandStrength(<<"high", "card", "Ace">>)
         /\ summary.label = <<"high", "card">>

\* two pair of kings and fives has been classified above two pair of jacks and
\* tens and below three of a kind
C22_Witness ==
  /\ pc = "classified"
  /\ content.desc = <<"two", "pair", "Kings", "and", "Fives">>
  /\ summary.strength > evaluateMadeHandStrength(<<"two", "pair", "Jacks", "and", "Tens">>)
  /\ summary.strength < evaluateMadeHandStrength(<<"three", "of", "a", "kind", "Fives">>)
  /\ summary.label = <<"two", "pair">>

DoggyWinner == WinnerOf("Doggy Paddling Award")

\* C23 (as claimed): the Doggy Paddling winner has a resolved final position
\* greater than 0.6 * N and the most hands_played among the not yet awarded
\* players with such a position.
C23_DoggyWinnerIsRanked ==
  (pc = "return" /\ "Doggy Paddling Award" \in DOMAIN awards) =>
    LET N == NumPlayers(players)
        Low(n) == PositionOf(n) # NullPosition /\ 5 * PositionOf(n) > 3 * N
    IN /\ Low(DoggyWinner)
       /\ \A n \in DOMAIN players.stat \ EarlierWinners(6) :
            Low(n) => players.stat[n].hands_played
                        <= players.stat[DoggyWinner].hands_played

\* C23 (amended): the Doggy Paddling winner either has no final position or
\* has one greater than 0.6 * N, and has the most hands_played among the not
\* yet awarded players of whom that is true.
C23_DoggyWinnerLowOrUnranked ==
  (pc = "return" /\ "Doggy Paddling Award" \in DOMAIN awards) =>
    LET N == NumPlayers(players)
        Low(n) == PositionOf(n) = NullPosition \/ 5 * PositionOf(n) > 3 * N
    IN /\ Low(DoggyWinner)
       /\ DoggyWinner \notin EarlierWinners(6)
       /\ \A n \in DOMAIN players.stat \ EarlierWinners(6) :
            Low(n) => players.stat[n].hands_played
                        <= players.stat[DoggyWinner].hands_played

\* the award went to a player without a position although a player with
\* position 3 of four, not yet awarded, was a candidate too
C23_Witness ==
  /\ pc = "return" /\ "Doggy Paddling Award" \in DOMAIN awards
  /\ NumPlayers(players) = 4
  /\ PositionOf(DoggyWinner) = NullPosition
  /\ \E n \in DOMAIN players.stat \ EarlierWinners(6) :
       PositionOf(n) = 3 /\ n # DoggyWinner

\* every upload request carried a .txt file, was saved without a throw and
\* has been answered
AllUploadsCompleted ==
  /\ uploads.req # <<>>
  /\ \A u \in DOMAIN uploads.req :
       uploads.req[u].pc = "done" /\ uploads.req[u].saved = "yes"

\* C24: once all upload requests have completed, in whatever order their
\* statements ran, tournament_results holds exactly one row, and it is the row
\* of the upload whose saveTournamentResults returned last.
C24_OneRowOfLastUpload ==
  AllUploadsCompleted =>
    /\ Len(DB.rows) = 1
    /\ DB.rows[1].tournament_id = uploads.finished[Len(uploads.finished)]

\* C29: a loadTournamentResults call made after some upload was saved, and
\* whose own statement did not throw, returns a stored tournament and not the
\* generateSampleData placeholder.
C29_LoadAfterSaveIsStored ==
  (loaded.afterSave /\ ~loaded.threw) => loaded.kind = "stored"

\* C30: an upload is answered success: true only if its tournament record
\* was written, that is only if its saveTournamentResults returned true.
C30_SuccessOnlyIfWritten ==
  \A u \in DOMAIN uploads.req :
    uploads.req[u].response = "success" => uploads.req[u].saved = "yes"

\* every suckout recorded in the player map
AllSuckouts ==
  UNION {Elements(players.stat[n].suckouts) : n \in DOMAIN players.stat}

\* C25: parseTxt never issues the YOLO Award: no suckout it records has a
\* description containing 7, 2, offsuit or unsuited, because the description
\* is built from the short hand labels, and the returned awards hold no YOLO
\* Award.
C25_NoYoloAward ==
  /\ \A s \in AllSuckouts : ~IsYoloSuckout(s)
  /\ pc = "done" => "YOLO Award" \notin DOMAIN summary.awards

\* a parse has returned in which a suckout was recorded for a winning hand
\* written with the digits 7 and 2
C25_Witness ==
  /\ pc = "done"
  /\ "YOLO Award" \notin DOMAIN summary.awards
  /\ \E s \in AllSuckouts :
       /\ IncludesDigit(ToLowerCase(s.winning_hand), "7")
       /\ IncludesDigit(ToLowerCase(s.winning_hand), "2")
       /\ s.description = <<"Sucked", "out", "with", "full", "house", "vs", "trip", "jacks">>

\* C26: after determineFinalPositions every final_position is null, 1, 2 or
\* 3, no two players share a position that is not null, and when the map has
\* a player some player has a position.
C26_PositionsWellFormed ==
  pc \in {"awards", "return", "done"} =>
    /\ \A n \in DOMAIN players.stat : PositionOf(n) \in {NullPosition, 1, 2, 3}
    /\ \A p \in {1, 2, 3} : Cardinality(WithPosition(p)) <= 1
    /\ DOMAIN players.stat # {} =>
         \E n \in DOMAIN players.stat : PositionOf(n) # NullPosition

\* positions were resolved for several players: one has position 3, nobody
\* has position 1 or 2, somebody is left without a position
C26_Witness ==
  /\ pc = "awards"
  /\ Cardinality(WithPosition(3)) = 1
  /\ WithPosition(1) = {} /\ WithPosition(2) = {}
  /\ WithPosition(NullPosition) # {}

\* C27: when the parsed transcript has seven or more players, the mapping
\* calculateAwards returns holds no Bubble Boy.
C27_NoBubbleBoyFromSeven ==
  (pc \in {"return", "done"} /\ NumPlayers(players) >= 7) =>
    "Bubble Boy" \notin DOMAIN awards

\* a parse of a table of seven has returned: the bubble position is 4, the
\* three positions are given, no Bubble Boy is issued
C27_Witness ==
  /\ pc = "done"
  /\ NumPlayers(players) = 7
  /\ \A p \in {1, 2, 3} : WithPosition(p) # {}
  /\ "Bubble Boy" \notin DOMAIN summary.awards

\* C28: on every non-empty player map the first copy of calculateAwards
\* returns the mapping the second copy returns.
C28_CopiesAgree ==
  (pc = "return" /\ NumPlayers(players) > 0) =>
    calculateAwardsFirstCopy(players) = Returned(awards)

====
